---- MODULE Spec2Model ----
(***************************************************************************)
(* Model of src/main.py: the CSV -> Cloud Spanner import pipeline.         *)
(*                                                                         *)
(* process_csv_to_spanner is a straight-line routine; it is modelled as a  *)
(* sequential process whose program counter `pc` walks the statements of   *)
(* lines 52-67.  The collaborators it calls (spanner.Client, json.load,    *)
(* pandas.read_csv / TextFileReader.__next__, Database.batch) are modelled *)
(* by what they do to the state the program can observe: they return a     *)
(* value or raise, and an exception that nobody catches ends the run.      *)
(***************************************************************************)
EXTENDS Integers, Sequences, FiniteSets, TLC

\* ------------------------------------------------------------------ bounds
\* Largest number of data rows of an input file.
MaxRows == 3
\* Largest positive --chunksize tried.
MaxChunk == 3

\* argparse default of --chunksize.
DefaultChunksize == -1

\* ----------------------------------------------------------------- helpers
Min(a, b) == IF a < b THEN a ELSE b

\* ceil(r / n) for n > 0
Ceil(r, n) == (r + n - 1) \div n

\* The data rows of a file with r rows; row k is identified by k, so that a
\* skipped, duplicated or reordered row changes the sequence.
Rows(r) == [k \in 1..r |-> k]

RECURSIVE Concat(_)
Concat(ss) == IF ss = <<>> THEN <<>> ELSE Head(ss) \o Concat(Tail(ss))

Last(s) == s[Len(s)]

\* ------------------------------------------------------------------ inputs
\* An input CSV file: whether the path can be opened, its data rows, and the
\* index of the first row at which the parser raises (0: none).
Files ==
    { [exists |-> FALSE, rows |-> <<>>, badRow |-> 0] } \cup
    UNION { { [exists |-> TRUE, rows |-> Rows(r), badRow |-> b] : b \in 0..r } :
            r \in 0..MaxRows }

\* --format_path: not given, a readable JSON mapping, or a missing/invalid one.
DtypePaths == {"none", "valid", "invalid"}

\* chunksize: <<>> is None, <<n>> is the integer n.
ChunkSizes == { <<>> } \cup { <<n>> : n \in (DefaultChunksize - 1)..MaxChunk }

VARIABLES
    file,        \* the input file (argument file_path)
    dtypePath,   \* argument dtype_path
    chunksize,   \* argument chunksize
    pc,          \* position in process_csv_to_spanner
    mode,        \* branch taken at line 55: "none", "single", "chunked"
    error,       \* the exception that ended the run, "none" if none
    dbOpen,      \* the database handle returned by connect_spanner is live
    fileOpen,    \* the TextFileReader holds the input file open
    pos,         \* rows the reader has consumed
    firstChunk,  \* the reader has not yet returned a chunk
    exhausted,   \* the reader has delivered the whole file
    chunk,       \* the DataFrame bound to df / chunk
    i,           \* enumerate index of the loop at line 64
    batches,     \* history: the DataFrames the reader has returned
    calls,       \* history: the batch.insert calls, [rows, ok]
    table,       \* rows committed to the target table by this run
    out,         \* lines printed to standard output
    log          \* history: calls to collaborators, in order

vars == << file, dtypePath, chunksize, pc, mode, error, dbOpen, fileOpen, pos,
           firstChunk, exhausted, chunk, i, batches, calls, table, out, log >>

inputs == << file, dtypePath, chunksize >>

\* ------------------------------------------------------- pure parts of code
\* line 55: `not chunksize or chunksize <= 0`
IsSingleShot_zero_chunked(cs) == cs = <<>> \/ cs[1] < 0

IsSingleShot(cs) == cs = <<>> \/ cs[1] = 0 \/ cs[1] <= 0

\* load_csv, lines 12-17: the exception it raises, "none" if it returns.
\* `whole` is TRUE when read_csv parses the whole file in the call
\* (chunksize=None); with a chunksize it only opens the file.
load_csv_error_ignoring_dtypes(dp, f, whole) ==
    IF ~f.exists THEN "FileAccessError"
    ELSE IF whole /\ f.badRow # 0 THEN "ParseError"
    ELSE "none"

load_csv_error(dp, f, whole) ==
    IF dp = "invalid" THEN "ConfigError"
    ELSE IF ~f.exists THEN "FileAccessError"
    ELSE IF whole /\ f.badRow # 0 THEN "ParseError"
    ELSE "none"

\* load_csv, lines 13-17: the collaborators it calls, in order.
load_csv_events(dp) ==
    IF dp = "none" THEN << "read_csv" >>
    ELSE IF dp = "invalid" THEN << "json_load" >>
    ELSE << "json_load", "read_csv" >>

\* TextFileReader.__next__ with chunksize n: the next n rows after pos.
ReadChunk_short(rows, p, n) == SubSeq(rows, p + 1, Min(p + n, Len(rows)) - 1)

ReadChunk(rows, p, n) == SubSeq(rows, p + 1, Min(p + n, Len(rows)))

\* insert_dataframe, lines 33-38: one batch.insert carrying every row of df,
\* committed when the `with db.batch()` block exits; the commit applies the
\* whole batch or nothing.  `ok` is the outcome of the commit.
insert_dataframe_per_row(df, ok) ==
    [ calls     |-> [k \in 1..Len(df) |-> [rows |-> << df[k] >>, ok |-> ok]],
      committed |-> IF ok THEN df ELSE <<>> ]

insert_dataframe_partial(df, ok) ==
    [ calls     |-> << [rows |-> df, ok |-> ok] >>,
      committed |-> IF ok THEN df ELSE SubSeq(df, 1, Len(df) - 1) ]

insert_dataframe(df, ok) ==
    [ calls     |-> << [rows |-> df, ok |-> ok] >>,
      committed |-> IF ok THEN df ELSE <<>> ]

\* printed lines: the tag and the numbers interpolated into the text
InfoSingleLine == [tag |-> "INFO", nums |-> <<>>]                  \* line 56
InfoChunkLine(n) == [tag |-> "INFO", nums |-> << n >>]             \* line 63
BatchLine_from_zero(k, df) == [tag |-> "BATCH", nums |-> << k - 1, Len(df) >>]

BatchLine(k, df) == [tag |-> "BATCH", nums |-> << k, Len(df) >>]   \* line 65
SuccessLine == [tag |-> "SUCCESS", nums |-> <<>>]                  \* lines 59, 67

\* -------------------------------------------------------------------- Init
Init ==
    /\ file \in Files
    /\ dtypePath \in DtypePaths
    /\ chunksize \in ChunkSizes
    /\ pc = "NotStarted"
    /\ mode = "none"
    /\ error = "none"
    /\ dbOpen = FALSE
    /\ fileOpen = FALSE
    /\ pos = 0
    /\ firstChunk = TRUE
    /\ exhausted = FALSE
    /\ chunk = <<>>
    /\ i = 0
    /\ batches = <<>>
    /\ calls = <<>>
    /\ table = <<>>
    /\ out = <<>>
    /\ log = <<>>

\* ----------------------------------------------------------------- actions
\* line 52: db = connect_spanner(instance_id, database_id)
connect_spanner ==
    /\ pc = "NotStarted"
    /\ log' = Append(log, "connect")
    /\ \E ok \in BOOLEAN :
         IF ok
         THEN /\ dbOpen' = TRUE
              /\ pc' = "branch"
              /\ error' = error
         ELSE /\ dbOpen' = dbOpen
              /\ pc' = "Failed"
              /\ error' = "ConnectError"
    /\ UNCHANGED << inputs, mode, fileOpen, pos, firstChunk, exhausted, chunk,
                    i, batches, calls, table, out >>

\* lines 55-56 and 63: the branch on chunksize and the [INFO] line
SelectMode ==
    /\ pc = "branch"
    /\ IF IsSingleShot(chunksize)
       THEN /\ mode' = "single"
            /\ out' = Append(out, InfoSingleLine)
            /\ pc' = "s_load"
       ELSE /\ mode' = "chunked"
            /\ out' = Append(out, InfoChunkLine(chunksize[1]))
            /\ pc' = "c_open"
    /\ UNCHANGED << inputs, error, dbOpen, fileOpen, pos, firstChunk,
                    exhausted, chunk, i, batches, calls, table, log >>

\* line 57: df = load_csv(file_path, dtype_path); read_csv opens, parses and
\* closes the file inside the call.
SingleLoad ==
    /\ pc = "s_load"
    /\ log' = log \o load_csv_events(dtypePath)
    /\ LET e == load_csv_error(dtypePath, file, TRUE) IN
         IF e = "none"
         THEN /\ chunk' = file.rows
              /\ batches' = Append(batches, file.rows)
              /\ pos' = Len(file.rows)
              /\ firstChunk' = FALSE
              /\ exhausted' = TRUE
              /\ pc' = "s_insert"
              /\ error' = error
         ELSE /\ pc' = "Failed"
              /\ error' = e
              /\ UNCHANGED << chunk, batches, pos, firstChunk, exhausted >>
    /\ UNCHANGED << inputs, mode, dbOpen, fileOpen, i, calls, table, out >>

\* line 58: insert_dataframe(db, table_name, df)
SingleInsert ==
    /\ pc = "s_insert"
    /\ \E ok \in BOOLEAN :
         LET r == insert_dataframe(chunk, ok) IN
           /\ calls' = calls \o r.calls
           /\ table' = table \o r.committed
           /\ log' = log \o [k \in 1..Len(r.calls) |-> "batch_insert"]
           /\ IF ok
              THEN pc' = "s_print" /\ error' = error
              ELSE pc' = "Failed" /\ error' = "WriteError"
    /\ UNCHANGED << inputs, mode, dbOpen, fileOpen, pos, firstChunk, exhausted,
                    chunk, i, batches, out >>

\* lines 59-60: the [SUCCESS] line and the return
SinglePrint ==
    /\ pc = "s_print"
    /\ out' = Append(out, SuccessLine)
    /\ pc' = "Completed"
    /\ UNCHANGED << inputs, mode, error, dbOpen, fileOpen, pos, firstChunk,
                    exhausted, chunk, i, batches, calls, table, log >>

\* line 64, the call load_csv(file_path, dtype_path, chunksize=chunksize):
\* read_csv opens the file and returns a TextFileReader that keeps it open.
ChunkOpen ==
    /\ pc = "c_open"
    /\ log' = log \o load_csv_events(dtypePath)
    /\ LET e == load_csv_error(dtypePath, file, FALSE) IN
         IF e = "none"
         THEN /\ fileOpen' = TRUE
              /\ pc' = "c_next"
              /\ error' = error
         ELSE /\ fileOpen' = fileOpen
              /\ pc' = "Failed"
              /\ error' = e
    /\ UNCHANGED << inputs, mode, dbOpen, pos, firstChunk, exhausted, chunk, i,
                    batches, calls, table, out >>

\* line 64, one step of the for loop: next() on the TextFileReader.
\*  - rows left: the next chunk, or the parser's exception (the reader closes
\*    the file before re-raising);
\*  - no rows left and no chunk returned yet: an empty DataFrame;
\*  - no rows left otherwise: StopIteration, the reader closes the file.
ChunkNext ==
    /\ pc = "c_next"
    /\ log' = Append(log, "next")
    /\ LET n  == chunksize[1]
           R  == Len(file.rows)
           hi == Min(pos + n, R)
       IN
         IF pos < R /\ file.badRow \in (pos + 1)..hi
         THEN /\ fileOpen' = FALSE
              /\ pc' = "Failed"
              /\ error' = "ParseError"
              /\ UNCHANGED << pos, firstChunk, exhausted, chunk, i, batches >>
         ELSE IF pos < R \/ firstChunk
         THEN /\ chunk' = ReadChunk(file.rows, pos, n)
              /\ batches' = Append(batches, chunk')
              /\ pos' = hi
              /\ firstChunk' = FALSE
              /\ i' = i + 1
              /\ pc' = "c_print"
              /\ UNCHANGED << fileOpen, exhausted, error >>
         ELSE /\ exhausted' = TRUE
              /\ fileOpen' = FALSE
              /\ pc' = "c_done"
              /\ UNCHANGED << pos, firstChunk, chunk, i, batches, error >>
    /\ UNCHANGED << inputs, mode, dbOpen, calls, table, out >>

\* line 65: print(f"[BATCH {i}] Inserting {len(chunk)} rows...")
ChunkPrint ==
    /\ pc = "c_print"
    /\ out' = Append(out, BatchLine(i, chunk))
    /\ pc' = "c_insert"
    /\ UNCHANGED << inputs, mode, error, dbOpen, fileOpen, pos, firstChunk,
                    exhausted, chunk, i, batches, calls, table, log >>

\* line 66 with the exception caught and the loop continued
ChunkInsert_continue ==
    /\ pc = "c_insert"
    /\ \E ok \in BOOLEAN :
         LET r == insert_dataframe(chunk, ok) IN
           /\ calls' = calls \o r.calls
           /\ table' = table \o r.committed
           /\ log' = log \o [k \in 1..Len(r.calls) |-> "batch_insert"]
           /\ pc' = "c_next"
           /\ error' = error
    /\ UNCHANGED << inputs, mode, dbOpen, fileOpen, pos, firstChunk, exhausted,
                    chunk, i, batches, out >>

\* line 66: insert_dataframe(db, table_name, chunk); an exception leaves the
\* loop and the function, the reader is not closed.
ChunkInsert ==
    /\ pc = "c_insert"
    /\ \E ok \in BOOLEAN :
         LET r == insert_dataframe(chunk, ok) IN
           /\ calls' = calls \o r.calls
           /\ table' = table \o r.committed
           /\ log' = log \o [k \in 1..Len(r.calls) |-> "batch_insert"]
           /\ IF ok
              THEN pc' = "c_next" /\ error' = error
              ELSE pc' = "Failed" /\ error' = "WriteError"
    /\ UNCHANGED << inputs, mode, dbOpen, fileOpen, pos, firstChunk, exhausted,
                    chunk, i, batches, out >>

\* line 67: the final [SUCCESS] line
ChunkDone ==
    /\ pc = "c_done"
    /\ out' = Append(out, SuccessLine)
    /\ pc' = "Completed"
    /\ UNCHANGED << inputs, mode, error, dbOpen, fileOpen, pos, firstChunk,
                    exhausted, chunk, i, batches, calls, table, log >>

Next ==
    \/ connect_spanner
    \/ SelectMode
    \/ SingleLoad
    \/ SingleInsert
    \/ SinglePrint
    \/ ChunkOpen
    \/ ChunkNext
    \/ ChunkPrint
    \/ ChunkInsert
    \/ ChunkDone

Spec == Init /\ [][Next]_vars

\* ------------------------------------------------------- derived notions
Terminal == pc \in {"Completed", "Failed"}
Running == pc \notin {"NotStarted", "Completed", "Failed"}
ValidInput == file.exists /\ file.badRow = 0 /\ dtypePath # "invalid"
R == Len(file.rows)
SentRows == Concat([k \in 1..Len(calls) |-> calls[k].rows])
BatchLines == SelectSeq(out, LAMBDA l : l.tag = "BATCH")
NoCallFailed == \A k \in 1..Len(calls) : calls[k].ok

TypeOK ==
    /\ pc \in {"NotStarted", "branch", "s_load", "s_insert", "s_print",
               "c_open", "c_next", "c_print", "c_insert", "c_done",
               "Completed", "Failed"}
    /\ mode \in {"none", "single", "chunked"}
    /\ pos \in 0..R
    /\ i = IF mode = "chunked" THEN Len(batches) ELSE 0

\* ------------------------------------------------------------------ claims
OkRows == Concat([k \in 1..Len(calls) |-> IF calls[k].ok THEN calls[k].rows ELSE <<>>])
IsPrefix(s, t) == Len(s) <= Len(t) /\ SubSeq(t, 1, Len(s)) = s

\* C1: for every chunksize setting, when a run reaches Completed the rows
\* passed to the Batch Writer, concatenated in call order, are exactly the
\* file's data rows in file order (nothing skipped, duplicated or reordered).
C1_RowsPreserved ==
    pc = "Completed" => /\ ValidInput
                        /\ SentRows = file.rows
                        /\ table = file.rows

C1_Witness ==
    /\ pc = "Completed"
    /\ mode = "chunked"
    /\ R >= 3
    /\ Len(calls) >= 2

\* C2: a chunked run with batch size N that reaches Completed on a file with R
\* rows produced exactly ceil(R / N) batches, every batch but the last has N
\* rows and the last has between 1 and N rows (R = 0 included).
C2_BatchCount ==
    (pc = "Completed" /\ mode = "chunked") =>
        LET n == chunksize[1]
            m == Len(batches)
        IN /\ m = Ceil(R, n)
           /\ \A k \in 1..(m - 1) : Len(batches[k]) = n
           /\ m > 0 => Len(batches[m]) \in 1..n

\* The same statement for files with at least one data row, and what the
\* reader does on a header-only file: one batch, with no rows.
C2_NonEmptyFile ==
    (pc = "Completed" /\ mode = "chunked") =>
        LET n == chunksize[1]
            m == Len(batches)
        IN IF R >= 1
           THEN /\ m = Ceil(R, n)
                /\ \A k \in 1..(m - 1) : Len(batches[k]) = n
                /\ Len(batches[m]) \in 1..n
           ELSE batches = << <<>> >> /\ Len(calls) = 1

\* C3: chunksize None, 0 or negative selects single-shot mode, a positive
\* chunksize selects chunked mode, and there is no third mode; a single-shot
\* run builds at most one batch, which holds all R rows, makes at most one
\* Batch Writer call with it, and exactly one when it reaches Completed.
C3_ModeSelection ==
    /\ mode \in {"none", "single", "chunked"}
    /\ mode = "none" <=> (pc \in {"NotStarted", "branch"} \/ error = "ConnectError")
    /\ mode # "none" =>
         (mode = "single" <=> (chunksize = <<>> \/ chunksize[1] <= 0))
    /\ mode = "chunked" => (chunksize # <<>> /\ chunksize[1] > 0)
    /\ mode = "single" =>
         /\ Len(batches) <= 1
         /\ Len(calls) <= 1
         /\ batches # <<>> => batches[1] = file.rows
         /\ calls # <<>> => calls[1].rows = file.rows
         /\ pc = "Completed" => (Len(batches) = 1 /\ Len(calls) = 1)

C3_Witness ==
    /\ pc = "Completed"
    /\ mode = "single"
    /\ chunksize = << 0 >>
    /\ R >= 2
    /\ Len(calls) = 1

\* C4: a failed Batch Writer call is the last call of the run and the run is
\* Failed with that error; the table holds exactly the rows of the calls that
\* succeeded before it (nothing rolled back, nothing of the failed batch), no
\* further batch has been read, and no row has been sent twice.
C4_WriteFailureStops ==
    /\ \A k \in 1..Len(calls) :
         ~calls[k].ok => (k = Len(calls) /\ pc = "Failed" /\ error = "WriteError")
    /\ error = "WriteError" =>
         /\ pc = "Failed"
         /\ calls # <<>>
         /\ ~Last(calls).ok
         /\ Len(batches) = Len(calls)
         /\ table = Concat([k \in 1..(Len(calls) - 1) |-> calls[k].rows])
    /\ table = OkRows
    /\ IsPrefix(SentRows, file.rows)

C4_Witness ==
    /\ mode = "chunked"
    /\ error = "WriteError"
    /\ chunksize = << 1 >>
    /\ R = 3
    /\ Len(calls) = 2
    /\ table = << 1 >>

\* C5: the k-th batch-insert call carries exactly the rows of the k-th batch
\* the Record Source produced; there is never more than one batch read and not
\* yet sent, and in every terminal state the number of calls equals the number
\* of batches produced.
C5_OneCallPerBatch ==
    /\ Len(calls) <= Len(batches)
    /\ Len(batches) <= Len(calls) + 1
    /\ \A k \in 1..Len(calls) : calls[k].rows = batches[k]
    /\ Terminal => Len(calls) = Len(batches)

C5_Witness ==
    /\ pc = "Completed"
    /\ mode = "chunked"
    /\ Len(calls) = 2
    /\ Len(calls[1].rows) = 2

C8_HandlesReleased == Terminal => (~dbOpen /\ ~fileOpen)

\* The input file alone: released in every terminal state.
C8_FileReleased == Terminal => ~fileOpen

\* C9: a batch is read only when every batch read before it has been written
\* successfully, so at most one batch is read and not yet written.
C9_ReadWriteAlternate ==
    /\ Len(calls) <= Len(batches)
    /\ Len(batches) <= Len(calls) + 1
    /\ Len(batches) = Len(calls) + 1 => NoCallFailed
    /\ Len(batches) = Len(calls) => pos = Len(SentRows)

C9_Witness ==
    /\ mode = "chunked"
    /\ pc = "c_insert"
    /\ Len(batches) = 2
    /\ Len(calls) = 1
    /\ pos < R

\* C10: every batch-insert call comes after the database handle was obtained,
\* then the TypeMap file loaded (when one is given), then the input file
\* opened, in that order; a run whose TypeMap file is missing or invalid, or
\* whose input file cannot be opened, makes no batch-insert call and leaves
\* the table unchanged.
C10_SetupBeforeFirstWrite ==
    /\ (dtypePath = "invalid" \/ ~file.exists) => (calls = <<>> /\ table = <<>>)
    /\ error \in {"ConfigError", "FileAccessError"} =>
         (pc = "Failed" /\ dbOpen /\ calls = <<>> /\ table = <<>>)
    /\ calls # <<>> => dbOpen
    /\ \A k \in 1..Len(log) :
         log[k] = "batch_insert" =>
           \E a, b \in 1..(k - 1) :
             /\ a < b
             /\ log[a] = "connect"
             /\ log[b] = "read_csv"
             /\ dtypePath # "none" =>
                  \E c \in (a + 1)..(b - 1) : log[c] = "json_load"

C10_Witness ==
    /\ pc = "Failed"
    /\ error = "ConfigError"
    /\ mode = "chunked"
    /\ file.exists
    /\ R >= 1
    /\ dbOpen
    /\ calls = <<>>

====
